---- MODULE Spec2Model ----
(***************************************************************************)
(* Footnote extraction and merge pipeline of bible-databases:              *)
(*   scripts/extract_mysword_footnotes.py  (MySword, <RF>...<Rf> notes)     *)
(*   scripts/extract_sword_footnotes.py    (SWORD / OSIS <note> notes)      *)
(*                                                                         *)
(* The canonical document (KJV.json) is a record                           *)
(*   [books |-> <<book, ...>>, footnotes |-> <<flat record, ...>>]          *)
(* with book = [name, chapters], chapter = [chapter, verses] and            *)
(* verse = [verse, text] plus an optional field "footnotes".  A Python      *)
(* dict is a TLA+ function on its keys, so "key in dict" is                 *)
(* key \in DOMAIN dict, and an optional field is a field that may be        *)
(* missing from the DOMAIN of the record.                                   *)
(*                                                                         *)
(* Seven specifications:                                                   *)
(*   Spec           one run of a merger on a stored document               *)
(*   SpecClassify   classify_note_type applied to a note text              *)
(*   SpecCatchWord  extract_catch_word applied to the text before a note   *)
(*   SpecClean      clean_note_text applied to a raw note                  *)
(*   SpecParse      parse_note_text applied to a note element              *)
(*   SpecExtract    extract_footnotes_from_mysword applied to a table      *)
(*   SpecMain       one run of main(), step by step                        *)
(***************************************************************************)
EXTENDS Integers, Sequences, FiniteSets, TLC

VARIABLES
    json_file,       \* the document stored at json_path
    loaded,          \* the document the last merge read with json.load
    new_footnotes,   \* the mapping (book, chapter, verse) -> [footnote, ...]
    mode,            \* "none", or the merge that ran: "partial", "full", "add"
    verses_updated,  \* the counter the merge reports
    pc,              \* "call" before a function is applied, "return" after
    note_text,       \* the text of a note: what classify_note_type is given
    note_type,       \* the type of a note: what classify_note_type returns
    text_before_note, \* extract_catch_word: its argument
    catch_word,      \* extract_catch_word: its result
    raw_note,        \* clean_note_text: its argument
    note_xml,        \* parse_note_text: its argument
    bible,           \* the rows of table Bible of the MySword database
    args_all,        \* args.all: every book, not the New Testament only
    main_pc,         \* where main() of extract_mysword_footnotes.py stands
    db_exists,       \* os.path.exists(db_path)
    json_exists,     \* os.path.exists(json_path)
    merge_data,      \* the document merge_footnotes_into_json holds in memory
    writes           \* how many times json_path was opened for writing

merge_vars == <<json_file, loaded, new_footnotes, mode, verses_updated>>

text_vars == <<pc, note_text, note_type, text_before_note, catch_word>>

source_vars == <<raw_note, note_xml, bible, args_all>>

main_vars == <<main_pc, db_exists, json_exists, merge_data, writes>>

vars == <<merge_vars, text_vars, source_vars, main_vars>>

----------------------------------------------------------------------------
(* Bounds of the model *)

\* the largest number of footnotes a mapping holds, over all its keys
MaxNotes == 2

\* the largest number of location keys in a mapping
MaxKeys == 2

\* the largest number of pieces a note text is put together from
MaxNotePieces == 3

\* the largest number of pieces the text before a note is put together from
MaxPrefixPieces == 4

\* how many pieces a raw note is put together from
MaxRawPieces == 3

\* how many pieces the body of a note element is put together from
MaxXmlPieces == 4

\* how many footnote markers the rows of table Bible hold together
MaxMarkers == 3

\* how many footnote markers the table of a whole run holds
MaxRunMarkers == 2

----------------------------------------------------------------------------
(* extract_mysword_footnotes.py: the book table *)

BOOK_NAMES ==
    <<"Genesis", "Exodus", "Leviticus", "Numbers", "Deuteronomy", "Joshua",
      "Judges", "Ruth", "I Samuel", "II Samuel", "I Kings", "II Kings",
      "I Chronicles", "II Chronicles", "Ezra", "Nehemiah", "Esther", "Job",
      "Psalms", "Proverbs", "Ecclesiastes", "Song of Solomon", "Isaiah",
      "Jeremiah", "Lamentations", "Ezekiel", "Daniel", "Hosea", "Joel",
      "Amos", "Obadiah", "Jonah", "Micah", "Nahum", "Habakkuk", "Zephaniah",
      "Haggai", "Zechariah", "Malachi",
      "Matthew", "Mark", "Luke", "John", "Acts", "Romans", "I Corinthians",
      "II Corinthians", "Galatians", "Ephesians", "Philippians",
      "Colossians", "I Thessalonians", "II Thessalonians", "I Timothy",
      "II Timothy", "Titus", "Philemon", "Hebrews", "James", "I Peter",
      "II Peter", "I John", "II John", "III John", "Jude",
      "Revelation of John">>

\* nt_book_names = set(BOOK_NAMES[i] for i in range(40, 67))
nt_book_names == {BOOK_NAMES[i] : i \in 40..66}

----------------------------------------------------------------------------
(* Text.  A Python str is the sequence of its characters, each a string of *)
(* one character; "" is the empty sequence.                                *)

\* what \s, str.strip() and str.split() take for whitespace
Whitespace == {" ", "\t", "\n", "\r", "\f"}

\* what \d matches
Digits == {"0", "1", "2", "3", "4", "5", "6", "7", "8", "9"}

UpperCase == 
    <<"A", "B", "C", "D", "E", "F", "G", "H", "I", "J", "K", "L", "M",
      "N", "O", "P", "Q", "R", "S", "T", "U", "V", "W", "X", "Y", "Z">>

LowerCase == 
    <<"a", "b", "c", "d", "e", "f", "g", "h", "i", "j", "k", "l", "m",
      "n", "o", "p", "q", "r", "s", "t", "u", "v", "w", "x", "y", "z">>

\* str.lower(), one character
Lower(c) ==
    IF \E i \in 1..Len(UpperCase) : UpperCase[i] = c
    THEN LowerCase[CHOOSE i \in 1..Len(UpperCase) : UpperCase[i] = c]
    ELSE c

\* str.lower()
lower(text) == [i \in 1..Len(text) |-> Lower(text[i])]

\* the character at index i, or no character past the ends
At(text, i) == IF i \in 1..Len(text) THEN text[i] ELSE "end"

\* marker in text
Contains(text, marker) ==
    \E i \in 0..(Len(text) - Len(marker)) :
        SubSeq(text, i + 1, i + Len(marker)) = marker

\* the length of the longest run of characters of class from index i on
RECURSIVE RunLength(_, _, _)
RunLength(text, i, class) ==
    IF i \in 1..Len(text) /\ text[i] \in class
    THEN 1 + RunLength(text, i + 1, class)
    ELSE 0

\* str.lstrip()
RECURSIVE lstrip(_)
lstrip(text) ==
    IF text # <<>> /\ Head(text) \in Whitespace THEN lstrip(Tail(text)) ELSE text

\* str.rstrip(chars)
RECURSIVE rstrip(_, _)
rstrip(text, chars) ==
    IF text # <<>> /\ text[Len(text)] \in chars
    THEN rstrip(SubSeq(text, 1, Len(text) - 1), chars)
    ELSE text

\* str.strip()
strip(text) == rstrip(lstrip(text), Whitespace)

\* str.split(): the maximal runs of characters that are not whitespace
RECURSIVE split(_)
split(text) ==
    LET rest == lstrip(text)
        n == RunLength(rest, 1, {rest[i] : i \in 1..Len(rest)} \ Whitespace)
    IN  IF rest = <<>>
        THEN <<>>
        ELSE <<SubSeq(rest, 1, n)>> \o split(SubSeq(rest, n + 1, Len(rest)))

\* The length of the match of a pattern of extract_catch_word at index i of
\* text, 0 when it does not match there.  No pattern matches the empty
\* string, and each has one way to match at most: the optional "/" cannot
\* be skipped where a "/" stands, and the greedy \d+ and \s* cannot give a
\* character back, as ">" is no digit and nothing follows \s*.
MatchLength(pattern, text, i) ==
    LET slash == IF At(text, i + 1) = "/" THEN 1 ELSE 0
        tag(letters) ==
            IF /\ At(text, i) = "<"
               /\ At(text, i + 1 + slash) = "F"
               /\ At(text, i + 2 + slash) \in letters
               /\ At(text, i + 3 + slash) = ">"
            THEN 4 + slash
            ELSE 0
    IN  CASE pattern = "<W[HG]\\d+>" ->
                LET n == RunLength(text, i + 3, Digits)
                IN  IF /\ At(text, i) = "<"
                       /\ At(text, i + 1) = "W"
                       /\ At(text, i + 2) \in {"H", "G"}
                       /\ n >= 1
                       /\ At(text, i + 3 + n) = ">"
                    THEN n + 4
                    ELSE 0
          [] pattern = "</?F[ROIA]>" -> tag({"R", "O", "I", "A"})
          [] pattern = "</?Fr>" -> tag({"r"})
          [] pattern = "</?Fo>" -> tag({"o"})
          [] pattern = "</?Fi>" -> tag({"i"})
          [] pattern = "</?Fa>" -> tag({"a"})
          [] pattern = "<CM>" ->
                IF /\ At(text, i) = "<"
                   /\ At(text, i + 1) = "C"
                   /\ At(text, i + 2) = "M"
                   /\ At(text, i + 3) = ">"
                THEN 4
                ELSE 0
          [] pattern = "pilcrow\\s*" ->
                IF At(text, i) = "Â" /\ At(text, i + 1) = "¶"
                THEN 2 + RunLength(text, i + 2, Whitespace)
                ELSE 0

\* re.sub(pattern, '', text) from index i on: the matches are found from
\* left to right and do not overlap
RECURSIVE SubFrom(_, _, _)
SubFrom(pattern, text, i) ==
    IF i > Len(text)
    THEN <<>>
    ELSE LET n == MatchLength(pattern, text, i)
         IN  IF n > 0
             THEN SubFrom(pattern, text, i + n)
             ELSE <<text[i]>> \o SubFrom(pattern, text, i + 1)

\* re.sub(pattern, '', text)
re_sub(pattern, text) == SubFrom(pattern, text, 1)

----------------------------------------------------------------------------
(* extract_mysword_footnotes.py: extract_catch_word and classify_note_type *)

\* the substitutions of extract_catch_word, lines 61-68
StripMarkup(text_before) ==
    LET c1 == re_sub("<W[HG]\\d+>", text_before)
        c2 == re_sub("</?F[ROIA]>", c1)
        c3 == re_sub("</?Fr>", c2)
        c4 == re_sub("</?Fo>", c3)
        c5 == re_sub("</?Fi>", c4)
        c6 == re_sub("</?Fa>", c5)
        c7 == re_sub("<CM>", c6)
    IN  re_sub("pilcrow\\s*", c7)

TrailingPunctuation == {":", ";", ",", "."}

extract_catch_word(text_before) ==
    LET clean == rstrip(strip(StripMarkup(text_before)), TrailingPunctuation)
    IN  IF clean = <<>>
        THEN <<>>
        ELSE LET words == split(clean)
             IN  IF words # <<>> THEN words[Len(words)] ELSE <<>>

literal_markers ==
    {<<"h", "e", "b", ".">>,
     <<"g", "r", ".">>,
     <<"c", "h", "a", "l", "d", ".">>,
     <<"g", "r", "e", "e", "k">>,
     <<"t", "h", "e", " ", "w", "o", "r", "d", " ", "i", "n", " ",
        "t", "h", "e", " ", "o", "r", "i", "g", "i", "n", "a", "l">>,
     <<"t", "h", "a", "t", " ", "i", "s", ",">>}

alternate_markers ==
    {<<"o", "r", ",">>,
     <<"o", "r", " ">>,
     <<"s", "o", "m", "e", " ", "r", "e", "a", "d", ",">>,
     <<"s", "o", "m", "e", " ", "c", "o", "p", "i", "e", "s", " ",
        "r", "e", "a", "d">>}

\* A faulty variant: the text is matched as it is written, not lower-cased.
classify_case_sensitive(text) ==
    LET has_literal == \E marker \in literal_markers : Contains(text, marker)
        has_alternate == \E marker \in alternate_markers : Contains(text, marker)
    IN  IF has_literal /\ has_alternate THEN "mixed"
        ELSE IF has_literal THEN "literal"
        ELSE IF has_alternate THEN "alternate"
        ELSE "alternate"

classify_note_type(text) ==
    LET text_lower == lower(text)
        has_literal ==
            \E marker \in literal_markers : Contains(text_lower, marker)
        has_alternate ==
            \E marker \in alternate_markers : Contains(text_lower, marker)
    IN  IF has_literal /\ has_alternate THEN "mixed"
        ELSE IF has_literal THEN "literal"
        ELSE IF has_alternate THEN "alternate"
        ELSE "alternate"

----------------------------------------------------------------------------
(* The patterns of clean_note_text and of parse_note_text *)

\* word stands at index i of text
StandsAt(word, text, i) ==
    /\ i >= 1
    /\ i + Len(word) - 1 <= Len(text)
    /\ \A k \in 1..Len(word) : text[i + k - 1] = word[k]

\* the least index from i on where word stands in text, 0 when there is none
RECURSIVE IndexFrom(_, _, _)
IndexFrom(word, text, i) ==
    IF i > Len(text) THEN 0
    ELSE IF StandsAt(word, text, i) THEN i
    ELSE IndexFrom(word, text, i + 1)

\* The match of prefix[^>]* (least = 0) or prefix[^>]+ (least = 1) and a
\* closing ">" at index i: the class takes every character, a newline and
\* a "<" too, up to the first ">", which it cannot pass.
TagLength(prefix, least, text, i) ==
    LET from == i + Len(prefix)
        close == IndexFrom(<<">">>, text, from)
    IN  IF StandsAt(prefix, text, i) /\ close >= from + least
        THEN close - i + 1
        ELSE 0

\* The match of open.*?close at index i: the lazy .*? stops at the first
\* close, and finds none when a newline, which "." does not match, comes
\* before it.
DelimitedLength(open, close, text, i) ==
    LET from == i + Len(open)
        end == IndexFrom(close, text, from)
    IN  IF /\ StandsAt(open, text, i)
           /\ end > 0
           /\ \A j \in from..(end - 1) : text[j] # "\n"
        THEN end + Len(close) - i
        ELSE 0

\* the match of </?letter> at index i
OptionalSlashLength(letter, text, i) ==
    IF StandsAt(<<"<", letter, ">">>, text, i) THEN 3
    ELSE IF StandsAt(<<"<", "/", letter, ">">>, text, i) THEN 4
    ELSE 0

catchWord_open == <<"<", "c", "a", "t", "c", "h", "W", "o", "r", "d", ">">>

catchWord_close ==
    <<"<", "/", "c", "a", "t", "c", "h", "W", "o", "r", "d", ">">>

rdg_literal_open ==
    <<"<", "r", "d", "g", " ", "t", "y", "p", "e", "=", "\"",
      "x", "-", "l", "i", "t", "e", "r", "a", "l", "\"", ">">>

rdg_alternate_open ==
    <<"<", "r", "d", "g", " ", "t", "y", "p", "e", "=", "\"",
      "a", "l", "t", "e", "r", "n", "a", "t", "e", "\"", ">">>

rdg_close == <<"<", "/", "r", "d", "g", ">">>

note_close == <<"<", "/", "n", "o", "t", "e", ">">>

\* The length of the match of a pattern of clean_note_text, of
\* parse_note_text or of the extraction at index i of text, 0 when it does not match there.  No
\* pattern matches the empty string.
NoteMatchLength(pattern, text, i) ==
    CASE pattern = "</?i>" -> OptionalSlashLength("i", text, i)
      [] pattern = "</?b>" -> OptionalSlashLength("b", text, i)
      [] pattern = "<[^>]+>" -> TagLength(<<"<">>, 1, text, i)
      [] pattern = "\\s+" -> RunLength(text, i, Whitespace)
      [] pattern = "<RF>.*?<Rf>" ->
            DelimitedLength(<<"<", "R", "F", ">">>, <<"<", "R", "f", ">">>,
                            text, i)
      [] pattern = "<catchWord>.*?</catchWord>" ->
            DelimitedLength(catchWord_open, catchWord_close, text, i)
      [] pattern = "<rdg type=\"x-literal\">(.*?)</rdg>" ->
            DelimitedLength(rdg_literal_open, rdg_close, text, i)
      [] pattern = "<rdg type=\"alternate\">(.*?)</rdg>" ->
            DelimitedLength(rdg_alternate_open, rdg_close, text, i)
      [] pattern = "<note[^>]*>" ->
            TagLength(<<"<", "n", "o", "t", "e">>, 0, text, i)
      [] pattern = "</note>" ->
            IF StandsAt(note_close, text, i) THEN Len(note_close) ELSE 0
      [] pattern = "<rdg[^>]*>" ->
            TagLength(<<"<", "r", "d", "g">>, 0, text, i)
      [] pattern = "</rdg>" ->
            IF StandsAt(rdg_close, text, i) THEN Len(rdg_close) ELSE 0

\* re.sub(pattern, repl, text) from index i on: the matches are found from
\* left to right and do not overlap
\* the least index from i on where pattern matches in text, 0 when there
\* is none
RECURSIVE NextMatch(_, _, _)
NextMatch(pattern, text, i) ==
    IF i > Len(text) THEN 0
    ELSE IF NoteMatchLength(pattern, text, i) > 0 THEN i
    ELSE NextMatch(pattern, text, i + 1)

RECURSIVE NoteSubFrom(_, _, _, _)
NoteSubFrom(pattern, repl, text, i) ==
    LET next == NextMatch(pattern, text, i)
    IN  IF next = 0
        THEN SubSeq(text, i, Len(text))
        ELSE SubSeq(text, i, next - 1) \o repl
                \o NoteSubFrom(pattern, repl, text,
                               next + NoteMatchLength(pattern, text, next))

\* re.sub(pattern, repl, text)
note_sub(pattern, repl, text) == NoteSubFrom(pattern, repl, text, 1)

\* str.replace(old, new) from index i on; old is not empty
RECURSIVE ReplaceFrom(_, _, _, _)
ReplaceFrom(text, old, new, i) ==
    LET next == IndexFrom(old, text, i)
    IN  IF next = 0
        THEN SubSeq(text, i, Len(text))
        ELSE SubSeq(text, i, next - 1) \o new
                \o ReplaceFrom(text, old, new, next + Len(old))

\* str.replace(old, new)
replace(text, old, new) == ReplaceFrom(text, old, new, 1)

----------------------------------------------------------------------------
(* extract_mysword_footnotes.py: clean_note_text *)

\* A faulty variant: only the i and b tags are removed.
RemoveItalicAndBold(text) ==
    note_sub("</?b>", <<>>, note_sub("</?i>", <<>>, text))

\* the three substitutions that remove tags, lines 133-137
RemoveTags(text) ==
    LET t1 == note_sub("</?i>", <<>>, text)
        t2 == note_sub("</?b>", <<>>, t1)
    IN  note_sub("<[^>]+>", <<>>, t2)

\* the four replacements of entities, lines 139-142; the last one
\* replaces '&c' by itself
DecodeEntities(text) ==
    LET t1 == replace(text, <<"&", "a", "m", "p", ";">>, <<"&">>)
        t2 == replace(t1, <<"&", "l", "t", ";">>, <<"<">>)
        t3 == replace(t2, <<"&", "g", "t", ";">>, <<">">>)
    IN  replace(t3, <<"&", "c">>, <<"&", "c">>)

clean_note_text(text) ==
    strip(note_sub("\\s+", <<" ">>, DecodeEntities(RemoveTags(text))))

----------------------------------------------------------------------------
(* extract_sword_footnotes.py: parse_note_text *)

\* str.lstrip(chars)
RECURSIVE lstrip_chars(_, _)
lstrip_chars(text, chars) ==
    IF text # <<>> /\ Head(text) \in chars
    THEN lstrip_chars(Tail(text), chars)
    ELSE text

\* re.search(pattern, text).group(1) for a pattern open(.*?)close, <<>>
\* standing for the '' line 47 takes when nothing matches
FirstGroup(pattern, open, close, text) ==
    LET i == NextMatch(pattern, text, 1)
        n == NoteMatchLength(pattern, text, i)
    IN  IF i = 0
        THEN <<>>
        ELSE SubSeq(text, i + Len(open), i + n - Len(close) - 1)

\* A faulty variant: the type is read from the keywords of the note.
note_type_by_keywords(xml) == classify_note_type(xml)

\* lines 50-59: the type, from the readings that re.findall finds
note_type_of_readings(xml) ==
    LET literals == NextMatch("<rdg type=\"x-literal\">(.*?)</rdg>", xml, 1)
        alternates == NextMatch("<rdg type=\"alternate\">(.*?)</rdg>", xml, 1)
    IN  IF literals # 0 /\ alternates # 0 THEN "mixed"
        ELSE IF literals # 0 THEN "literal"
        ELSE "alternate"

\* lines 62-70: the text of the note
note_text_of(xml) ==
    LET t1 == note_sub("<catchWord>.*?</catchWord>", <<>>, xml)
        t2 == note_sub("<note[^>]*>", <<>>, t1)
        t3 == note_sub("</note>", <<>>, t2)
        t4 == note_sub("<rdg[^>]*>", <<>>, t3)
        t5 == note_sub("</rdg>", <<>>, t4)
        t6 == strip(lstrip_chars(strip(t5), {":"}))
    IN  note_sub("\\s+", <<" ">>, t6)

parse_note_text(xml) ==
    [catch_word |->
        replace(FirstGroup("<catchWord>.*?</catchWord>",
                           catchWord_open, catchWord_close, xml),
                <<"â", "€", "¦">>, <<".", ".", ".">>),
     note_text |-> note_text_of(xml),
     note_type |-> note_type_of_readings(xml)]

----------------------------------------------------------------------------
(* extract_mysword_footnotes.py: extract_footnotes_from_mysword *)

\* a row sorts before another one: ORDER BY Book, Chapter, Verse
RowBefore(r, q) ==
    \/ r.Book < q.Book
    \/ r.Book = q.Book /\ r.Chapter < q.Chapter
    \/ r.Book = q.Book /\ r.Chapter = q.Chapter /\ r.Verse < q.Verse

\* the rows of a set in the order of the query
RECURSIVE Ordered(_)
Ordered(rows) ==
    IF rows = {}
    THEN <<>>
    ELSE LET first == CHOOSE r \in rows : \A q \in rows \ {r} : RowBefore(r, q)
         IN  <<first>> \o Ordered(rows \ {first})

\* The rows the cursor yields, lines 161-166.  LIKE does not tell the case
\* of ASCII letters apart.
Cursor(table, min_book) ==
    Ordered({r \in table :
                /\ r.Book >= min_book
                /\ Contains(lower(r.Scripture), <<"<", "r", "f", ">">>)})

\* A faulty variant: a number without a name is given a name.
BOOK_NAMES_get_or_unknown(book_num) ==
    IF book_num \in 1..Len(BOOK_NAMES) THEN BOOK_NAMES[book_num] ELSE "Unknown"

\* BOOK_NAMES.get(book_num)
BOOK_NAMES_get(book_num) ==
    IF book_num \in 1..Len(BOOK_NAMES) THEN BOOK_NAMES[book_num] ELSE "None"

\* re.split(r'(<RF>.*?<Rf>)', text) from index i on: the text before each
\* match and the match, then the text after the last one
RECURSIVE SplitFrom(_, _)
SplitFrom(text, i) ==
    LET next == NextMatch("<RF>.*?<Rf>", text, i)
    IN  IF next = 0
        THEN <<SubSeq(text, i, Len(text))>>
        ELSE LET n == NoteMatchLength("<RF>.*?<Rf>", text, next)
             IN  <<SubSeq(text, i, next - 1), SubSeq(text, next, next + n - 1)>>
                    \o SplitFrom(text, next + n)

\* the footnote of lines 185-198
Footnote(raw, text_so_far) ==
    LET cleaned == clean_note_text(raw)
    IN  [catch_word |-> extract_catch_word(text_so_far),
         note_text |-> cleaned,
         note_type |-> classify_note_type(cleaned)]

\* re.match(r'<RF>(.*?)<Rf>', part).group(1), part being matched
RawNote(part) ==
    SubSeq(part, 5, NoteMatchLength("<RF>.*?<Rf>", part, 1) - 4)

\* A faulty variant: each footnote is put in front of the earlier ones.
RECURSIVE PartNotesInFront(_, _, _)
PartNotesInFront(parts, k, text_so_far) ==
    IF k > Len(parts)
    THEN <<>>
    ELSE IF NoteMatchLength("<RF>.*?<Rf>", parts[k], 1) > 0
         THEN PartNotesInFront(parts, k + 1, text_so_far)
                \o <<Footnote(RawNote(parts[k]), text_so_far)>>
         ELSE PartNotesInFront(parts, k + 1, parts[k])

\* A faulty variant: the context is all the text of the verse so far.
RECURSIVE PartNotesOfAllText(_, _, _)
PartNotesOfAllText(parts, k, text_so_far) ==
    IF k > Len(parts)
    THEN <<>>
    ELSE IF NoteMatchLength("<RF>.*?<Rf>", parts[k], 1) > 0
         THEN <<Footnote(RawNote(parts[k]), text_so_far)>>
                \o PartNotesOfAllText(parts, k + 1, text_so_far)
         ELSE PartNotesOfAllText(parts, k + 1, text_so_far \o parts[k])

\* the loop of lines 182-201 from part k on: the footnotes it appends
RECURSIVE PartNotes(_, _, _)
PartNotes(parts, k, text_so_far) ==
    IF k > Len(parts)
    THEN <<>>
    ELSE IF NoteMatchLength("<RF>.*?<Rf>", parts[k], 1) > 0
         THEN <<Footnote(RawNote(parts[k]), text_so_far)>>
                \o PartNotes(parts, k + 1, text_so_far)
         ELSE PartNotes(parts, k + 1, parts[k])

\* footnotes[key].append(...), with footnotes[key] = [] before the first
AppendAll(footnotes, key, notes) ==
    IF notes = <<>>
    THEN footnotes
    ELSE [k \in DOMAIN footnotes \cup {key} |->
            IF k = key
            THEN (IF key \in DOMAIN footnotes THEN footnotes[key] ELSE <<>>)
                    \o notes
            ELSE footnotes[k]]

\* the loop of lines 171-201 from row r on
RECURSIVE ExtractRows(_, _, _)
ExtractRows(rows, r, footnotes) ==
    IF r > Len(rows)
    THEN footnotes
    ELSE LET book_name == BOOK_NAMES_get(rows[r].Book)
             notes == PartNotes(SplitFrom(rows[r].Scripture, 1), 1, <<>>)
             key == <<book_name, rows[r].Chapter, rows[r].Verse>>
         IN  IF book_name = "None"
             THEN ExtractRows(rows, r + 1, footnotes)
             ELSE ExtractRows(rows, r + 1, AppendAll(footnotes, key, notes))

extract_footnotes_from_mysword(table, nt_only) ==
    LET min_book == IF nt_only THEN 40 ELSE 1
    IN  ExtractRows(Cursor(table, min_book), 1, [k \in {} |-> <<>>])

----------------------------------------------------------------------------
(* The per-verse mutation of the two mergers *)

\* A faulty variant: the verse is replaced by a new dict, its text is lost.
SetFootnotesOnNewVerse(verse, notes) ==
    [verse |-> verse.verse, footnotes |-> notes]

\* verse['footnotes'] = notes
SetFootnotes(verse, notes) ==
    [k \in DOMAIN verse \cup {"footnotes"} |->
        IF k = "footnotes" THEN notes ELSE verse[k]]

\* verse.pop('footnotes', None)
PopFootnotes(verse) ==
    [k \in DOMAIN verse \ {"footnotes"} |-> verse[k]]

\* A faulty variant: the mapped notes are added to the notes already there.
MergeVerseExtend(verse, book_name, ch_num, mapping, nt_only) ==
    LET key == <<book_name, ch_num, verse.verse>>
        old == IF "footnotes" \in DOMAIN verse THEN verse.footnotes ELSE <<>>
    IN  IF key \in DOMAIN mapping
        THEN SetFootnotes(verse, old \o mapping[key])
        ELSE IF ~nt_only THEN PopFootnotes(verse) ELSE verse

\* A faulty variant: full-replace mode forgets to clear the unmapped verses.
MergeVerseNoClear(verse, book_name, ch_num, mapping, nt_only) ==
    LET key == <<book_name, ch_num, verse.verse>>
    IN  IF key \in DOMAIN mapping
        THEN SetFootnotes(verse, mapping[key])
        ELSE verse

\* A faulty variant: the unmapped verses are cleared in every mode.
MergeVerseAlwaysClear(verse, book_name, ch_num, mapping, nt_only) ==
    LET key == <<book_name, ch_num, verse.verse>>
    IN  IF key \in DOMAIN mapping
        THEN SetFootnotes(verse, mapping[key])
        ELSE PopFootnotes(verse)

\* The body of the verse loop (mysword 233-243; sword 133-138 is the same
\* with nt_only = TRUE, where the elif branch is never taken).
MergeVerse(verse, book_name, ch_num, mapping, nt_only) ==
    LET key == <<book_name, ch_num, verse.verse>>
    IN  IF key \in DOMAIN mapping
        THEN SetFootnotes(verse, mapping[key])
        ELSE IF ~nt_only THEN PopFootnotes(verse) ELSE verse

MergeChapter(chapter, book_name, mapping, nt_only) ==
    [chapter EXCEPT !.verses =
        [v \in 1..Len(@) |->
            MergeVerse(@[v], book_name, chapter.chapter, mapping, nt_only)]]

\* A faulty variant: the scope test is lost, every book is processed.
MergeBookNoSkip(book, mapping, nt_only, scoped) ==
    [book EXCEPT !.chapters =
        [c \in 1..Len(@) |-> MergeChapter(@[c], book.name, mapping, nt_only)]]

\* The body of the book loop.  scoped is TRUE for merge_footnotes_into_json,
\* whose loop starts with "if nt_only and book_name not in nt_book_names:
\* continue", and FALSE for add_footnotes_to_json, which has no such test.
MergeBook(book, mapping, nt_only, scoped) ==
    IF scoped /\ nt_only /\ book.name \notin nt_book_names
    THEN book
    ELSE [book EXCEPT !.chapters =
            [c \in 1..Len(@) |->
                MergeChapter(@[c], book.name, mapping, nt_only)]]

MergeBooks(books, mapping, nt_only, scoped) ==
    [b \in 1..Len(books) |-> MergeBook(books[b], mapping, nt_only, scoped)]

\* Every verse of the document, as an index triple <<b, c, v>> into books:
\* the three nested loops over books, chapters and verses.
AllVerses(books) ==
    UNION {UNION {{<<b, c, v>> :
                        v \in 1..Len(books[b].chapters[c].verses)} :
                    c \in 1..Len(books[b].chapters)} :
            b \in 1..Len(books)}

VerseAt(books, p) == books[p[1]].chapters[p[2]].verses[p[3]]

\* The verses the mutation loop reaches: those of the books it does not skip.
VisitedVerses(books, nt_only, scoped) ==
    {p \in AllVerses(books) :
        ~(scoped /\ nt_only /\ books[p[1]].name \notin nt_book_names)}

KeyAt(books, p) ==
    <<books[p[1]].name,
      books[p[1]].chapters[p[2]].chapter,
      books[p[1]].chapters[p[2]].verses[p[3]].verse>>

\* A faulty variant: every key of the mapping is counted.
CountUpdatedKeys(books, mapping, nt_only, scoped) ==
    Cardinality(DOMAIN mapping)

\* verses_updated: one increment per visited verse whose key is mapped.
CountUpdated(books, mapping, nt_only, scoped) ==
    Cardinality({p \in VisitedVerses(books, nt_only, scoped) :
                    KeyAt(books, p) \in DOMAIN mapping})

----------------------------------------------------------------------------
(* The rebuild of the flat top-level array *)

\* A faulty variant: the record is put in front of the array.
RECURSIVE AppendNotesInFront(_, _, _, _, _)
AppendNotesInFront(st, book_name, ch_num, v_num, notes) ==
    IF notes = <<>>
    THEN st
    ELSE AppendNotesInFront(
            [flat |-> <<[id |-> st.footnote_id,
                         book |-> book_name,
                         chapter |-> ch_num,
                         verse |-> v_num,
                         catch_word |-> Head(notes).catch_word,
                         note_text |-> Head(notes).note_text,
                         note_type |-> Head(notes).note_type]>> \o st.flat,
             footnote_id |-> st.footnote_id + 1],
            book_name, ch_num, v_num, Tail(notes))

\* for fn in verse['footnotes']: flat_footnotes.append({...}); footnote_id += 1
RECURSIVE AppendNotes(_, _, _, _, _)
AppendNotes(st, book_name, ch_num, v_num, notes) ==
    IF notes = <<>>
    THEN st
    ELSE AppendNotes(
            [flat |-> Append(st.flat,
                        [id |-> st.footnote_id,
                         book |-> book_name,
                         chapter |-> ch_num,
                         verse |-> v_num,
                         catch_word |-> Head(notes).catch_word,
                         note_text |-> Head(notes).note_text,
                         note_type |-> Head(notes).note_type]),
             footnote_id |-> st.footnote_id + 1],
            book_name, ch_num, v_num, Tail(notes))

\* for verse in chapter['verses']: if 'footnotes' in verse: ...
RECURSIVE FlatVerses(_, _, _, _)
FlatVerses(st, book_name, ch_num, verses) ==
    IF verses = <<>>
    THEN st
    ELSE LET verse == Head(verses)
             st1 == IF "footnotes" \in DOMAIN verse
                    THEN AppendNotes(st, book_name, ch_num, verse.verse,
                                     verse.footnotes)
                    ELSE st
         IN  FlatVerses(st1, book_name, ch_num, Tail(verses))

\* for chapter in book['chapters']: ...
RECURSIVE FlatChapters(_, _, _)
FlatChapters(st, book_name, chapters) ==
    IF chapters = <<>>
    THEN st
    ELSE FlatChapters(
            FlatVerses(st, book_name, Head(chapters).chapter,
                       Head(chapters).verses),
            book_name, Tail(chapters))

\* for book in data['books']: ...
RECURSIVE FlatBooks(_, _)
FlatBooks(st, books) ==
    IF books = <<>>
    THEN st
    ELSE FlatBooks(FlatChapters(st, Head(books).name, Head(books).chapters),
                   Tail(books))

\* A faulty variant: the array of the previous run is not reset.
RebuildFlatKeepOld(data) ==
    FlatBooks([flat |-> IF "footnotes" \in DOMAIN data
                        THEN data.footnotes ELSE <<>>,
               footnote_id |-> 1],
              data.books).flat

\* flat_footnotes = []; footnote_id = 1; the four loops.  data is the
\* document after the per-verse mutation, its old top-level array included.
RebuildFlat(data) ==
    FlatBooks([flat |-> <<>>, footnote_id |-> 1], data.books).flat

----------------------------------------------------------------------------
(* The mergers, from json.load to json.dump *)

\* data[field] = value
SetField(data, field, value) ==
    [k \in DOMAIN data \cup {field} |-> IF k = field THEN value ELSE data[k]]

Merged(document, mapping, nt_only, scoped) ==
    LET mutated == SetField(document, "books",
                        MergeBooks(document.books, mapping, nt_only, scoped))
    IN  SetField(mutated, "footnotes", RebuildFlat(mutated))

\* merge_footnotes_into_json(json_path, new_footnotes, nt_only)
merge_footnotes_into_json(document, mapping, nt_only) ==
    Merged(document, mapping, nt_only, TRUE)

\* add_footnotes_to_json(json_path, footnotes)
add_footnotes_to_json(document, mapping) ==
    Merged(document, mapping, TRUE, FALSE)

\* the document a merge of the given mode returns
MergeResult(document, mapping, m) ==
    CASE m = "partial" -> merge_footnotes_into_json(document, mapping, TRUE)
      [] m = "full"    -> merge_footnotes_into_json(document, mapping, FALSE)
      [] m = "add"     -> add_footnotes_to_json(document, mapping)
      [] OTHER         -> document

----------------------------------------------------------------------------
(* Inputs: documents and mappings *)

NoteA == [catch_word |-> "he", note_text |-> "Or, him", note_type |-> "alternate"]
NoteB == [catch_word |-> "", note_text |-> "Heb. the heart", note_type |-> "literal"]
NoteOld == [catch_word |-> "void", note_text |-> "Gr. empty Or, waste", note_type |-> "mixed"]

\* the footnotes an extraction produces
Notes == {NoteA, NoteB}

RECURSIVE SeqsUpTo(_, _)
SeqsUpTo(S, n) ==
    IF n = 0
    THEN {<<>>}
    ELSE LET shorter == SeqsUpTo(S, n - 1)
         IN  shorter \cup {Append(s, x) : s \in shorter, x \in S}

RECURSIVE SumLen(_, _)
SumLen(f, K) ==
    IF K = {}
    THEN 0
    ELSE LET k == CHOOSE x \in K : TRUE
         IN  Len(f[k]) + SumLen(f, K \ {k})

\* Genesis 1:1 | Matthew 1:1, 1:2 | Matthew 2:1 are the verses of the
\* documents; the last three keys name a book, a chapter and a verse that no
\* document has.
DocKeys ==
    {<<"Genesis", 1, 1>>, <<"Matthew", 1, 1>>, <<"Matthew", 1, 2>>,
     <<"Matthew", 2, 1>>}

ForeignKeys ==
    {<<"Mark", 1, 1>>, <<"Matthew", 3, 1>>, <<"Matthew", 1, 3>>}

CandidateKeys == DocKeys \cup ForeignKeys

Mappings ==
    UNION {{f \in [K -> SeqsUpTo(Notes, MaxNotes)] : SumLen(f, K) <= MaxNotes} :
            K \in {K \in SUBSET CandidateKeys : Cardinality(K) <= MaxKeys}}

EmptyMapping == [k \in {} |-> <<>>]

\* what a verse of a stored document may hold: no field, or notes of an
\* earlier run
VerseField(verse, state) ==
    IF state = "none" THEN verse ELSE SetFootnotes(verse, state)

StoredStatesOT == {"none", <<NoteOld, NoteA>>}
StoredStatesNT == {"none", <<NoteOld>>}

Books(g, m11, m12, m21) ==
    <<[name |-> "Genesis",
       chapters |-> <<[chapter |-> 1,
                       verses |-> <<VerseField([verse |-> 1, text |-> "In the beginning"], g)>>]>>],
      [name |-> "Matthew",
       chapters |-> <<[chapter |-> 1,
                       verses |-> <<VerseField([verse |-> 1, text |-> "The book of the generation"], m11),
                                    VerseField([verse |-> 2, text |-> "Abraham begat Isaac"], m12)>>],
                      [chapter |-> 2,
                       verses |-> <<VerseField([verse |-> 1, text |-> "Now when Jesus was born"], m21)>>]>>]>>

\* a top-level array left by an earlier run, no longer matching the verses
StaleFlat ==
    <<[id |-> 7, book |-> "Genesis", chapter |-> 1, verse |-> 1,
       catch_word |-> "void", note_text |-> "Gr. empty Or, waste",
       note_type |-> "mixed"]>>

\* The untouched document of a first run has no top-level array; every
\* other stored document carries one.
FreshDocument == [books |-> Books("none", "none", "none", "none")]

StoredDocuments ==
    {FreshDocument}
    \cup
    {[books |-> Books(g, m11, m12, m21), footnotes |-> StaleFlat] :
        g \in StoredStatesOT, m11 \in StoredStatesNT,
        m12 \in StoredStatesNT, m21 \in StoredStatesNT}

----------------------------------------------------------------------------
\* no text function is being applied
TextAtRest ==
    /\ pc = "call"
    /\ note_text = <<>>
    /\ note_type = ""
    /\ text_before_note = <<>>
    /\ catch_word = <<>>

\* no source is being read
SourceAtRest ==
    /\ raw_note = <<>>
    /\ note_xml = <<>>
    /\ bible = {}
    /\ args_all = FALSE

NoData == [books |-> <<>>]

\* main() is not running
MainAtRest ==
    /\ main_pc = "idle"
    /\ db_exists = TRUE
    /\ json_exists = TRUE
    /\ merge_data = NoData
    /\ writes = 0

\* no merge is being run
MergeAtRest ==
    /\ json_file = FreshDocument
    /\ loaded = FreshDocument
    /\ new_footnotes = EmptyMapping
    /\ mode = "none"
    /\ verses_updated = 0

(* The state machine of the mergers.  A behaviour is one run of one of the *)
(* scripts on a stored document: load, mutate, rebuild, dump.              *)

Init ==
    /\ json_file \in StoredDocuments
    /\ loaded = json_file
    /\ new_footnotes = EmptyMapping
    /\ mode = "none"
    /\ verses_updated = 0
    /\ TextAtRest
    /\ SourceAtRest
    /\ MainAtRest

\* extract_mysword_footnotes.py without --all: nt_only = True
MergePartial ==
    /\ mode = "none"
    /\ \E mapping \in Mappings :
            /\ loaded' = json_file
            /\ new_footnotes' = mapping
            /\ mode' = "partial"
            /\ json_file' = merge_footnotes_into_json(json_file, mapping, TRUE)
            /\ verses_updated' = CountUpdated(json_file.books, mapping, TRUE, TRUE)
            /\ UNCHANGED <<text_vars, source_vars, main_vars>>

\* extract_mysword_footnotes.py --all: nt_only = False
MergeFull ==
    /\ mode = "none"
    /\ \E mapping \in Mappings :
            /\ loaded' = json_file
            /\ new_footnotes' = mapping
            /\ mode' = "full"
            /\ json_file' = merge_footnotes_into_json(json_file, mapping, FALSE)
            /\ verses_updated' = CountUpdated(json_file.books, mapping, FALSE, TRUE)
            /\ UNCHANGED <<text_vars, source_vars, main_vars>>

\* extract_sword_footnotes.py
AddFootnotes ==
    /\ mode = "none"
    /\ \E mapping \in Mappings :
            /\ loaded' = json_file
            /\ new_footnotes' = mapping
            /\ mode' = "add"
            /\ json_file' = add_footnotes_to_json(json_file, mapping)
            /\ verses_updated' = CountUpdated(json_file.books, mapping, TRUE, FALSE)
            /\ UNCHANGED <<text_vars, source_vars, main_vars>>

Next == MergePartial \/ MergeFull \/ AddFootnotes

Spec == Init /\ [][Next]_vars

----------------------------------------------------------------------------
(* The text functions, each applied once to an argument put together from  *)
(* a few pieces                                                            *)

RECURSIVE Concatenations(_, _)
Concatenations(pieces, n) ==
    IF n = 0
    THEN {<<>>}
    ELSE LET shorter == Concatenations(pieces, n - 1)
         IN  shorter \cup {s \o p : s \in shorter, p \in pieces}

NotePieces ==
    {<<"H", "e", "b", ".">>,
     <<"G", "r">>,
     <<".">>,
     <<"O", "r">>,
     <<",">>,
     <<" ">>,
     <<"t", "h", "a", "t", " ", "i", "s">>,
     <<"s", "o", "m", "e", " ", "r", "e", "a", "d">>,
     <<"s", "o", "m", "e", " ", "c", "o", "p", "i", "e", "s", " ",
        "r", "e", "a", "d">>,
     <<"t", "h", "e", " ", "w", "o", "r", "d", " ", "i", "n", " ",
        "t", "h", "e", " ", "o", "r", "i", "g", "i", "n", "a", "l">>,
     <<"C", "h", "a", "l", "d", ".">>,
     <<"G", "R", "E", "E", "K">>,
     <<"x">>}

NoteTexts == Concatenations(NotePieces, MaxNotePieces)

InitClassify ==
    /\ MergeAtRest
    /\ pc = "call"
    /\ note_text \in NoteTexts
    /\ note_type = ""
    /\ text_before_note = <<>>
    /\ catch_word = <<>>
    /\ SourceAtRest
    /\ MainAtRest

Classify ==
    /\ pc = "call"
    /\ pc' = "return"
    /\ note_type' = classify_note_type(note_text)
    /\ UNCHANGED <<merge_vars, note_text, text_before_note, catch_word>>
    /\ UNCHANGED <<source_vars, main_vars>>

NextClassify == Classify

SpecClassify == InitClassify /\ [][NextClassify]_vars

PrefixPieces ==
    {<<"h", "e">>,
     <<"t", "r", "u", "t", "h">>,
     <<" ">>,
     <<",">>,
     <<":">>,
     <<".">>,
     <<";">>,
     <<"<", "W", "H", "1", "2", "3", "4", ">">>,
     <<"<", "F", "r", ">">>,
     <<"<", "/", "F", "I", ">">>,
     <<"<", "C", "M", ">">>,
     <<"Â", "¶">>}

PrefixTexts == Concatenations(PrefixPieces, MaxPrefixPieces)

InitCatchWord ==
    /\ MergeAtRest
    /\ pc = "call"
    /\ note_text = <<>>
    /\ note_type = ""
    /\ text_before_note \in PrefixTexts
    /\ catch_word = <<>>
    /\ SourceAtRest
    /\ MainAtRest

CatchWord ==
    /\ pc = "call"
    /\ pc' = "return"
    /\ catch_word' = extract_catch_word(text_before_note)
    /\ UNCHANGED <<merge_vars, note_text, note_type, text_before_note>>
    /\ UNCHANGED <<source_vars, main_vars>>

NextCatchWord == CatchWord

SpecCatchWord == InitCatchWord /\ [][NextCatchWord]_vars

RawPieces ==
    {<<"<", "i", ">">>,
     <<"<", "/", "b", ">">>,
     <<"<", "x", ">">>,
     <<"<">>,
     <<">">>,
     <<"&", "l", "t", ";">>,
     <<"&", "g", "t", ";">>,
     <<"&", "a", "m", "p", ";">>,
     <<"l", "t", ";">>,
     <<" ">>,
     <<"\n">>,
     <<"a">>}

RawNotes == Concatenations(RawPieces, MaxRawPieces)

InitClean ==
    /\ MergeAtRest
    /\ pc = "call"
    /\ note_text = <<>>
    /\ note_type = ""
    /\ text_before_note = <<>>
    /\ catch_word = <<>>
    /\ raw_note \in RawNotes
    /\ note_xml = <<>>
    /\ bible = {}
    /\ args_all = FALSE
    /\ MainAtRest

Clean ==
    /\ pc = "call"
    /\ pc' = "return"
    /\ note_text' = clean_note_text(raw_note)
    /\ UNCHANGED <<merge_vars, note_type, text_before_note, catch_word>>
    /\ UNCHANGED <<source_vars, main_vars>>

NextClean == Clean

SpecClean == InitClean /\ [][NextClean]_vars

\* A note as extract_footnotes hands it to parse_note_text: what
\* re.findall(r'<note[^>]*>.*?</note>', raw) of line 106 matched, so a note
\* element with no newline in it.  The readings are written as the module
\* writes them, <rdg type="...">.
XmlPieces ==
    {catchWord_open \o <<"h", "e", "â", "€", "¦">> \o catchWord_close,
     rdg_literal_open,
     rdg_alternate_open,
     rdg_close,
     <<"H", "e", "b", ".">>,
     <<":", " ", "O", "r", ",", " ">>}

note_open ==
    <<"<", "n", "o", "t", "e", " ", "t", "y", "p", "e", "=", "\"",
      "s", "t", "u", "d", "y", "\"", ">">>

NoteElements ==
    {note_open \o body \o note_close :
        body \in Concatenations(XmlPieces, MaxXmlPieces)}

InitParse ==
    /\ MergeAtRest
    /\ TextAtRest
    /\ raw_note = <<>>
    /\ note_xml \in NoteElements
    /\ bible = {}
    /\ args_all = FALSE
    /\ MainAtRest

Parse ==
    /\ pc = "call"
    /\ pc' = "return"
    /\ \E parsed \in {parse_note_text(note_xml)} :
            /\ note_text' = parsed.note_text
            /\ catch_word' = parsed.catch_word
            /\ note_type' = parsed.note_type
    /\ UNCHANGED <<merge_vars, text_before_note, source_vars, main_vars>>

NextParse == Parse

SpecParse == InitParse /\ [][NextParse]_vars

\* the two markers of a footnote
RF == <<"<", "R", "F", ">">>

Rf == <<"<", "R", "f", ">">>

\* what stands between two markers of a verse, or before the first one
VerseTexts ==
    {<<>>,
     <<"s", "o", " ", "<", "F", "I", ">", "h", "e", "<", "F", "i", ">", ":">>}

\* what stands between the markers of a footnote
Payloads ==
    {<<"H", "e", "b", ".", " ", "<", "i", ">", "a", "<", "/", "i", ">">>,
     <<"O", "r", ",", " ", "b">>}

\* what stands after the last marker of a verse
VerseEnd == <<" ", "a", "m", "e", "n", ".">>

\* The texts with n footnotes.  A verse is one line, and its text has no
\* marker of its own.
RECURSIVE Marked(_)
Marked(n) ==
    IF n = 0
    THEN {VerseEnd}
    ELSE {t \o RF \o p \o Rf \o rest :
            t \in VerseTexts, p \in Payloads, rest \in Marked(n - 1)}

\* Book, Chapter, Verse of the rows: one of the Old Testament, one of the
\* New Testament and one of a book that BOOK_NAMES does not have
Genesis_1_1 == <<1, 1, 1>>

Matthew_1_1 == <<40, 1, 1>>

Unknown_1_1 == <<67, 1, 1>>

\* no row at a location (n = -1), or the rows with n footnotes
RowsAt(location, n) ==
    IF n = -1
    THEN {{}}
    ELSE {{[Book |-> location[1], Chapter |-> location[2],
            Verse |-> location[3], Scripture |-> text]} : text \in Marked(n)}

\* the tables with n footnotes at most; (Book, Chapter, Verse) is the key
\* of table Bible
TablesUpTo(n) ==
    UNION {{g \cup m \cup u :
                g \in RowsAt(Genesis_1_1, c[1]),
                m \in RowsAt(Matthew_1_1, c[2]),
                u \in RowsAt(Unknown_1_1, c[3])} :
            c \in {c \in [1..3 -> -1..n] :
                    (IF c[1] > 0 THEN c[1] ELSE 0)
                    + (IF c[2] > 0 THEN c[2] ELSE 0)
                    + (IF c[3] > 0 THEN c[3] ELSE 0) <= n}}

Tables == TablesUpTo(MaxMarkers)

InitExtract ==
    /\ MergeAtRest
    /\ TextAtRest
    /\ raw_note = <<>>
    /\ note_xml = <<>>
    /\ bible \in Tables
    /\ args_all \in BOOLEAN
    /\ MainAtRest

Extract ==
    /\ pc = "call"
    /\ pc' = "return"
    /\ new_footnotes' = extract_footnotes_from_mysword(bible, ~args_all)
    /\ UNCHANGED <<json_file, loaded, mode, verses_updated>>
    /\ UNCHANGED <<note_text, note_type, text_before_note, catch_word>>
    /\ UNCHANGED <<source_vars, main_vars>>

NextExtract == Extract

SpecExtract == InitExtract /\ [][NextExtract]_vars

----------------------------------------------------------------------------
(* One run of main() of extract_mysword_footnotes.py: the two checks, the *)
(* extraction, and the merge from json.load to json.dump                  *)

StoredNote ==
    [catch_word |-> <<"v", "o", "i", "d">>,
     note_text |-> <<"G", "r", ".", " ", "e", "m", "p", "t", "y">>,
     note_type |-> "literal"]

\* the documents of a first run and of a later one
RunDocuments ==
    {FreshDocument,
     [books |-> Books(<<StoredNote>>, <<StoredNote>>, "none", "none"),
      footnotes |->
        <<[id |-> 7, book |-> "Genesis", chapter |-> 1, verse |-> 1,
           catch_word |-> StoredNote.catch_word,
           note_text |-> StoredNote.note_text,
           note_type |-> StoredNote.note_type]>>]}

\* A file that does not exist holds no table and no document.
InitMain ==
    /\ TextAtRest
    /\ raw_note = <<>>
    /\ note_xml = <<>>
    /\ args_all \in BOOLEAN
    /\ db_exists \in BOOLEAN
    /\ json_exists \in BOOLEAN
    /\ bible \in (IF db_exists THEN TablesUpTo(MaxRunMarkers) ELSE {{}})
    /\ json_file \in (IF json_exists THEN RunDocuments ELSE {NoData})
    /\ loaded = NoData
    /\ new_footnotes = EmptyMapping
    /\ mode = "none"
    /\ verses_updated = 0
    /\ main_pc = "check_db"
    /\ merge_data = NoData
    /\ writes = 0

\* lines 298-300
CheckDb ==
    /\ main_pc = "check_db"
    /\ main_pc' = IF db_exists THEN "check_json" ELSE "exit"
    /\ UNCHANGED <<merge_vars, text_vars, source_vars>>
    /\ UNCHANGED <<db_exists, json_exists, merge_data, writes>>

\* lines 302-304
CheckJson ==
    /\ main_pc = "check_json"
    /\ main_pc' = IF json_exists THEN "extract" ELSE "exit"
    /\ UNCHANGED <<merge_vars, text_vars, source_vars>>
    /\ UNCHANGED <<db_exists, json_exists, merge_data, writes>>

\* lines 306-313
ExtractAll ==
    /\ main_pc = "extract"
    /\ main_pc' = "load"
    /\ new_footnotes' = extract_footnotes_from_mysword(bible, ~args_all)
    /\ UNCHANGED <<json_file, loaded, mode, verses_updated>>
    /\ UNCHANGED <<text_vars, source_vars>>
    /\ UNCHANGED <<db_exists, json_exists, merge_data, writes>>

\* lines 217-218
Load ==
    /\ main_pc = "load"
    /\ main_pc' = "mutate"
    /\ loaded' = json_file
    /\ merge_data' = json_file
    /\ UNCHANGED <<json_file, new_footnotes, mode, verses_updated>>
    /\ UNCHANGED <<text_vars, source_vars>>
    /\ UNCHANGED <<db_exists, json_exists, writes>>

\* A faulty variant: the file is written as soon as the verses are mutated.
MutateAndWrite ==
    /\ main_pc = "mutate"
    /\ main_pc' = "rebuild"
    /\ merge_data' =
        SetField(merge_data, "books",
                 MergeBooks(merge_data.books, new_footnotes, ~args_all, TRUE))
    /\ json_file' = merge_data'
    /\ writes' = writes + 1
    /\ verses_updated' =
        CountUpdated(merge_data.books, new_footnotes, ~args_all, TRUE)
    /\ UNCHANGED <<loaded, new_footnotes, mode>>
    /\ UNCHANGED <<text_vars, source_vars>>
    /\ UNCHANGED <<db_exists, json_exists>>

\* lines 222-243
Mutate ==
    /\ main_pc = "mutate"
    /\ main_pc' = "rebuild"
    /\ merge_data' =
        SetField(merge_data, "books",
                 MergeBooks(merge_data.books, new_footnotes, ~args_all, TRUE))
    /\ verses_updated' =
        CountUpdated(merge_data.books, new_footnotes, ~args_all, TRUE)
    /\ UNCHANGED <<json_file, loaded, new_footnotes, mode>>
    /\ UNCHANGED <<text_vars, source_vars>>
    /\ UNCHANGED <<db_exists, json_exists, writes>>

\* lines 245-267
Rebuild ==
    /\ main_pc = "rebuild"
    /\ main_pc' = "dump"
    /\ merge_data' = SetField(merge_data, "footnotes", RebuildFlat(merge_data))
    /\ UNCHANGED <<merge_vars, text_vars, source_vars>>
    /\ UNCHANGED <<db_exists, json_exists, writes>>

\* lines 269-270
Dump ==
    /\ main_pc = "dump"
    /\ main_pc' = "done"
    /\ json_file' = merge_data
    /\ writes' = writes + 1
    /\ mode' = IF args_all THEN "full" ELSE "partial"
    /\ UNCHANGED <<loaded, new_footnotes, verses_updated>>
    /\ UNCHANGED <<text_vars, source_vars>>
    /\ UNCHANGED <<db_exists, json_exists, merge_data>>

NextMain ==
    \/ CheckDb
    \/ CheckJson
    \/ ExtractAll
    \/ Load
    \/ Mutate
    \/ Rebuild
    \/ Dump

SpecMain == InitMain /\ [][NextMain]_vars

----------------------------------------------------------------------------
(* Vocabulary of the claims *)

HasNotes(verse) == "footnotes" \in DOMAIN verse

NotesOf(verse) == IF HasNotes(verse) THEN verse.footnotes ELSE <<>>

\* p comes before q in book order, then chapter order, then verse order
Earlier(p, q) ==
    \/ p[1] < q[1]
    \/ p[1] = q[1] /\ p[2] < q[2]
    \/ p[1] = q[1] /\ p[2] = q[2] /\ p[3] < q[3]

RECURSIVE CountNotes(_, _)
CountNotes(books, P) ==
    IF P = {}
    THEN 0
    ELSE LET p == CHOOSE x \in P : TRUE
         IN  Len(NotesOf(VerseAt(books, p))) + CountNotes(books, P \ {p})

\* the number of footnotes attached to the verses that come before p
NotesBefore(books, p) ==
    CountNotes(books, {q \in AllVerses(books) : Earlier(q, p)})

AfterMerge == mode # "none"

\* the verse at p belongs to a book the merge of this mode processes
InScope(books, p) ==
    mode = "partial" => books[p[1]].name \in nt_book_names

Restrict(f, K) == [k \in K |-> f[k]]

----------------------------------------------------------------------------
(* C1.  After any merge the flat top-level array is the concatenation, in  *)
(* book, chapter, verse and within-verse order, of the footnotes attached  *)
(* to the verses: the record at the place of the k-th footnote of a verse  *)
(* carries that footnote's catch_word, note_text and note_type and the     *)
(* verse's book name, chapter number and verse number, and the length of   *)
(* the array is the sum of the lengths of the per-verse lists.             *)
FlatIsConcatenation ==
    AfterMerge =>
        LET books == json_file.books
            flat == json_file.footnotes
        IN  /\ Len(flat) = CountNotes(books, AllVerses(books))
            /\ \A p \in AllVerses(books) :
                \A k \in 1..Len(NotesOf(VerseAt(books, p))) :
                    LET i == NotesBefore(books, p) + k
                        note == NotesOf(VerseAt(books, p))[k]
                    IN  /\ i \in 1..Len(flat)
                        /\ flat[i].catch_word = note.catch_word
                        /\ flat[i].note_text = note.note_text
                        /\ flat[i].note_type = note.note_type
                        /\ flat[i].book = books[p[1]].name
                        /\ flat[i].chapter = books[p[1]].chapters[p[2]].chapter
                        /\ flat[i].verse = VerseAt(books, p).verse

\* a merge left notes in both books, in both chapters of Matthew, and two
\* notes on one verse
FlatSpansTheDocument ==
    /\ AfterMerge
    /\ Len(json_file.footnotes) >= 4
    /\ json_file.footnotes[1].book = "Genesis"
    /\ json_file.footnotes[2].book = "Genesis"
    /\ json_file.footnotes[3].chapter = 1
    /\ json_file.footnotes[4].chapter = 2

(* C2.  After any merge the record at position i of the flat array has id  *)
(* i, so the ids are 1..N without gap or duplicate, and the array does not *)
(* depend on the top-level array the loaded document held: every stored    *)
(* document with the same books gives the same flat array.                 *)
IdsAreRecomputed ==
    AfterMerge =>
        /\ \A i \in 1..Len(json_file.footnotes) : json_file.footnotes[i].id = i
        /\ \A other \in {loaded, [books |-> loaded.books],
                         [books |-> loaded.books, footnotes |-> StaleFlat],
                         [books |-> loaded.books, footnotes |-> <<>>]} :
            MergeResult(other, new_footnotes, mode).footnotes
                = json_file.footnotes

\* a merge of a document that held a stale top-level array (id 7)
StaleArrayReplaced ==
    /\ AfterMerge
    /\ "footnotes" \in DOMAIN loaded
    /\ loaded.footnotes = StaleFlat
    /\ Len(json_file.footnotes) >= 2

(* C3.  A partial merge (nt_only) leaves every book that is not a New      *)
(* Testament book exactly as it was loaded, also when the mapping holds    *)
(* keys of such a book.                                                    *)
PartialLeavesOtherBooks ==
    mode = "partial" =>
        /\ Len(json_file.books) = Len(loaded.books)
        /\ \A b \in 1..Len(loaded.books) :
            loaded.books[b].name \notin nt_book_names
                => json_file.books[b] = loaded.books[b]

\* a partial merge whose mapping held other notes for Genesis 1:1 than the
\* verse carries
PartialGivenOldTestamentKey ==
    /\ mode = "partial"
    /\ <<"Genesis", 1, 1>> \in DOMAIN new_footnotes
    /\ new_footnotes[<<"Genesis", 1, 1>>] # <<>>
    /\ HasNotes(VerseAt(loaded.books, <<1, 1, 1>>))
    /\ VerseAt(loaded.books, <<1, 1, 1>>).footnotes
            # new_footnotes[<<"Genesis", 1, 1>>]

(* C4.  After a full merge every verse whose location key is in the        *)
(* mapping carries exactly the mapped list and every other verse carries   *)
(* no footnote field, whatever the verse carried before.                   *)
FullFollowsMapping ==
    mode = "full" =>
        /\ AllVerses(json_file.books) = AllVerses(loaded.books)
        /\ \A p \in AllVerses(json_file.books) :
            LET verse == VerseAt(json_file.books, p)
                key == KeyAt(loaded.books, p)
            IN  IF key \in DOMAIN new_footnotes
                THEN HasNotes(verse) /\ verse.footnotes = new_footnotes[key]
                ELSE ~HasNotes(verse)

\* a full merge that cleared the stale notes of one verse and replaced those
\* of another
FullClearedAndReplaced ==
    /\ mode = "full"
    /\ \E p \in AllVerses(loaded.books) :
        /\ HasNotes(VerseAt(loaded.books, p))
        /\ KeyAt(loaded.books, p) \notin DOMAIN new_footnotes
    /\ \E q \in AllVerses(loaded.books) :
        /\ HasNotes(VerseAt(loaded.books, q))
        /\ KeyAt(loaded.books, q) \in DOMAIN new_footnotes
        /\ new_footnotes[KeyAt(loaded.books, q)] # <<>>

(* C5.  In a merge that is not full, a verse of a processed book whose key *)
(* is in the mapping carries the mapped list, a verse whose key is not in  *)
(* the mapping is left as it was, and no verse loses its footnote field.   *)
NonFullNeverRemoves ==
    mode \in {"partial", "add"} =>
        /\ AllVerses(json_file.books) = AllVerses(loaded.books)
        /\ \A p \in AllVerses(loaded.books) :
            LET before == VerseAt(loaded.books, p)
                after == VerseAt(json_file.books, p)
                key == KeyAt(loaded.books, p)
            IN  /\ InScope(loaded.books, p) =>
                    IF key \in DOMAIN new_footnotes
                    THEN HasNotes(after) /\ after.footnotes = new_footnotes[key]
                    ELSE after = before
                /\ HasNotes(before) => HasNotes(after)

\* a partial merge that overwrote the notes of one New Testament verse and
\* met another, with notes, that the mapping does not name
PartialOverwroteAndKept ==
    /\ mode = "partial"
    /\ \E p \in AllVerses(loaded.books) :
        /\ InScope(loaded.books, p)
        /\ HasNotes(VerseAt(loaded.books, p))
        /\ KeyAt(loaded.books, p) \notin DOMAIN new_footnotes
    /\ \E q \in AllVerses(loaded.books) :
        /\ InScope(loaded.books, q)
        /\ HasNotes(VerseAt(loaded.books, q))
        /\ KeyAt(loaded.books, q) \in DOMAIN new_footnotes
        /\ new_footnotes[KeyAt(loaded.books, q)] # VerseAt(loaded.books, q).footnotes

(* C6.  The full merge is idempotent: the full merge of the merged         *)
(* document with the same mapping is the merged document, per-verse notes, *)
(* flat array and ids included.                                            *)
FullMergeIdempotent ==
    mode = "full" =>
        merge_footnotes_into_json(json_file, new_footnotes, FALSE) = json_file

\* a full merge that changed the verses and left a flat array of two records
FullMergeChangedDocument ==
    /\ mode = "full"
    /\ json_file.books # loaded.books
    /\ Len(json_file.footnotes) >= 2

(* C7.  No verse that a merge set or cleared ends with a footnotes field   *)
(* holding an empty sequence.                                              *)
NoEmptyFootnoteField ==
    AfterMerge =>
        \A p \in AllVerses(json_file.books) :
            (/\ InScope(loaded.books, p)
             /\ \/ KeyAt(loaded.books, p) \in DOMAIN new_footnotes
                \/ mode = "full")
            => ~(/\ HasNotes(VerseAt(json_file.books, p))
                 /\ VerseAt(json_file.books, p).footnotes = <<>>)

(* C8.  A mapping key that names no verse of the document is ignored: the  *)
(* merge gives the document it gives without that key, the key is not      *)
(* counted as an updated verse, and no flat record carries its location.   *)
ForeignKeysIgnored ==
    AfterMerge =>
        LET present == {KeyAt(loaded.books, p) : p \in AllVerses(loaded.books)}
            foreign == DOMAIN new_footnotes \ present
            flat == json_file.footnotes
        IN  /\ json_file = MergeResult(loaded,
                                Restrict(new_footnotes,
                                         DOMAIN new_footnotes \cap present),
                                mode)
            /\ verses_updated =
                Cardinality({k \in DOMAIN new_footnotes \cap present :
                                mode = "partial" => k[1] \in nt_book_names})
            /\ \A i \in 1..Len(flat) :
                <<flat[i].book, flat[i].chapter, flat[i].verse>> \notin foreign

\* a merge whose mapping named a verse of the document and, with a note, a
\* location the document does not have
MergeGivenForeignKey ==
    /\ AfterMerge
    /\ verses_updated = 1
    /\ \E k \in DOMAIN new_footnotes :
        /\ k \in ForeignKeys
        /\ new_footnotes[k] # <<>>

(* C9.  classify_note_type returns one of literal, alternate, mixed, by    *)
(* matching the markers as substrings without regard to case: mixed when   *)
(* a literal marker and an alternate marker occur, literal when only a     *)
(* literal marker occurs, alternate in every other case, the text without  *)
(* any marker included.                                                    *)
LiteralMarkersOfTheRule ==
    {<<"h", "e", "b", ".">>,
     <<"g", "r", ".">>,
     <<"c", "h", "a", "l", "d", ".">>,
     <<"g", "r", "e", "e", "k">>,
     <<"t", "h", "e", " ", "w", "o", "r", "d", " ", "i", "n", " ",
        "t", "h", "e", " ", "o", "r", "i", "g", "i", "n", "a", "l">>,
     <<"t", "h", "a", "t", " ", "i", "s", ",">>}

AlternateMarkersOfTheRule ==
    {<<"o", "r", ",">>,
     <<"o", "r", " ">>,
     <<"s", "o", "m", "e", " ", "r", "e", "a", "d", ",">>,
     <<"s", "o", "m", "e", " ", "c", "o", "p", "i", "e", "s", " ",
        "r", "e", "a", "d">>}

OccursIgnoringCase(marker, text) ==
    \E i \in 1..Len(text) :
        /\ i + Len(marker) - 1 <= Len(text)
        /\ \A j \in 1..Len(marker) : Lower(text[i + j - 1]) = Lower(marker[j])

LastToken(text) ==
    IF \A i \in 1..Len(text) : text[i] \in Whitespace
    THEN <<>>
    ELSE LET last == CHOOSE e \in 1..Len(text) :
                        /\ text[e] \notin Whitespace
                        /\ \A i \in (e + 1)..Len(text) : text[i] \in Whitespace
             first == CHOOSE b \in 1..last :
                        /\ \A i \in b..last : text[i] \notin Whitespace
                        /\ b > 1 => text[b - 1] \in Whitespace
         IN  SubSeq(text, first, last)

CatchWordIsLastToken ==
    pc = "return" =>
        LET cleaned == strip(StripMarkup(text_before_note))
        IN  /\ catch_word = LastToken(rstrip(cleaned, TrailingPunctuation))
            /\ cleaned = <<>> => catch_word = <<>>

CatchWordIsBareLastToken ==
    /\ CatchWordIsLastToken
    /\ pc = "return" =>
        \/ catch_word = <<>>
        \/ catch_word[Len(catch_word)] \notin TrailingPunctuation

(* C17.  A merge of either policy changes only the footnotes field of the *)
(* verses and the top-level footnotes array: the books and their names,    *)
(* the chapters and their numbers, the verses, their numbers and their     *)
(* texts are after the merge what they were before.                        *)
WithoutFootnotes(books) ==
    [b \in 1..Len(books) |->
        [name |-> books[b].name,
         chapters |->
            [c \in 1..Len(books[b].chapters) |->
                [chapter |-> books[b].chapters[c].chapter,
                 verses |->
                    [v \in 1..Len(books[b].chapters[c].verses) |->
                        [k \in DOMAIN books[b].chapters[c].verses[v]
                                \ {"footnotes"} |->
                            books[b].chapters[c].verses[v][k]]]]]]]

MergeKeepsTextAndStructure ==
    AfterMerge =>
        /\ WithoutFootnotes(json_file.books) = WithoutFootnotes(loaded.books)
        /\ DOMAIN json_file = DOMAIN loaded \cup {"footnotes"}
        /\ \A b \in 1..Len(json_file.books) :
            /\ DOMAIN json_file.books[b] = DOMAIN loaded.books[b]
            /\ \A c \in 1..Len(json_file.books[b].chapters) :
                DOMAIN json_file.books[b].chapters[c]
                    = DOMAIN loaded.books[b].chapters[c]

\* a merge that gave notes to one verse and took those of another away
MergeSetAndCleared ==
    /\ AfterMerge
    /\ \E p \in AllVerses(loaded.books) :
        HasNotes(VerseAt(loaded.books, p)) /\ ~HasNotes(VerseAt(json_file.books, p))
    /\ \E q \in AllVerses(loaded.books) :
        ~HasNotes(VerseAt(loaded.books, q)) /\ HasNotes(VerseAt(json_file.books, q))


(* C14.  What clean_note_text returns holds no tag token, that is no "<"  *)
(* followed by one or more characters other than ">" and then a ">"; each *)
(* run of whitespace in it is one space, and it neither starts nor ends   *)
(* with whitespace.                                                       *)
HasTagToken(text) ==
    \E i, j \in 1..Len(text) :
        /\ i + 1 < j
        /\ text[i] = "<"
        /\ text[j] = ">"
        /\ \A k \in (i + 1)..(j - 1) : text[k] # ">"

WhitespaceNormalised(text) ==
    /\ \A i \in 1..Len(text) : text[i] \in Whitespace => text[i] = " "
    /\ \A i \in 1..(Len(text) - 1) : ~(text[i] = " " /\ text[i + 1] = " ")
    /\ text # <<>> => text[1] # " " /\ text[Len(text)] # " "

CleanedTextHasNoTag ==
    pc = "return" =>
        /\ ~HasTagToken(note_text)
        /\ WhitespaceNormalised(note_text)


(* C14, amended.  clean_note_text removes the tags before it decodes the  *)
(* entities: the text it has after the three removals holds no tag token, *)
(* and what it returns for a raw note without "&" holds none; a "<" and a *)
(* ">" decoded from an entity stay.  Of what it returns each run of       *)
(* whitespace is one space and neither end is whitespace.                 *)
TagsRemovedBeforeDecoding ==
    pc = "return" =>
        /\ ~HasTagToken(RemoveTags(raw_note))
        /\ ~Contains(raw_note, <<"&">>) => ~HasTagToken(note_text)
        /\ WhitespaceNormalised(note_text)

\* a raw note with a tag and no entity was cleaned, and some text is left
CleanedTaggedNote ==
    /\ pc = "return"
    /\ HasTagToken(raw_note)
    /\ ~Contains(raw_note, <<"&">>)
    /\ Contains(raw_note, <<"\n">>)
    /\ note_text # <<>>


(* C13.  parse_note_text takes the type of a note from the types of its   *)
(* rdg elements and not from the words of its text: mixed when it has an  *)
(* x-literal and an alternate reading, literal when it has x-literal      *)
(* readings and no alternate one, alternate otherwise, a note without     *)
(* readings included.                                                     *)
HasReading(xml, open) ==
    \E i \in 1..Len(xml) :
        /\ StandsAt(open, xml, i)
        /\ \E j \in (i + Len(open))..Len(xml) : StandsAt(rdg_close, xml, j)

TypeByReadings ==
    pc = "return" =>
        note_type =
            IF /\ HasReading(note_xml, rdg_literal_open)
               /\ HasReading(note_xml, rdg_alternate_open)
            THEN "mixed"
            ELSE IF HasReading(note_xml, rdg_literal_open)
            THEN "literal"
            ELSE "alternate"

\* a note whose text says Heb. and no Or, and whose one reading is alternate
KeywordsSayOtherwise ==
    /\ pc = "return"
    /\ classify_note_type(note_text) = "literal"
    /\ HasReading(note_xml, rdg_alternate_open)
    /\ note_type = "alternate"


----------------------------------------------------------------------------
(* Words of the claims about the extraction *)

\* the run reads the row: every book, or the New Testament only
Selected(row) == row.Book >= (IF args_all THEN 1 ELSE 40)

\* the book of the row is one of the 66 books
Known(row) == \E n \in 1..66 : row.Book = n

KeyOf(row) == <<BOOK_NAMES[row.Book], row.Chapter, row.Verse>>

\* where the pairs of markers of a text stand, from index i on: each
\* opening marker and the closing marker that follows it
RECURSIVE MarkerPairs(_, _)
MarkerPairs(text, i) ==
    IF IndexFrom(RF, text, i) = 0
        \/ IndexFrom(Rf, text, IndexFrom(RF, text, i) + Len(RF)) = 0
    THEN <<>>
    ELSE LET open == IndexFrom(RF, text, i)
             close == IndexFrom(Rf, text, open + Len(RF))
         IN  <<[open |-> open, close |-> close]>>
                \o MarkerPairs(text, close + Len(Rf))

\* what stands between the markers of a pair
Payload(text, pair) == SubSeq(text, pair.open + Len(RF), pair.close - 1)

\* what stands before the k-th pair of markers, from the start of the
\* verse or from the end of the pair before it
Context(text, pairs, k) ==
    SubSeq(text,
           IF k = 1 THEN 1 ELSE pairs[k - 1].close + Len(Rf),
           pairs[k].open - 1)

\* the rows that the run reads, of a known book and with a footnote
RowsWithNotes ==
    {r \in bible : Selected(r) /\ Known(r) /\ Contains(r.Scripture, RF)}

Extracted == pc = "return"

(* C11.  Of the rows the run reads, those of known books, the extraction  *)
(* gives a key to each verse with a pair of markers and to no other       *)
(* verse, and the list of the key holds one footnote for each pair, in    *)
(* the order of the pairs in the verse.                                   *)
OneFootnotePerMarker ==
    Extracted =>
        /\ DOMAIN new_footnotes = {KeyOf(r) : r \in RowsWithNotes}
        /\ \A r \in RowsWithNotes :
            \A pairs \in {MarkerPairs(r.Scripture, 1)} :
                /\ Len(new_footnotes[KeyOf(r)]) = Len(pairs)
                /\ \A k \in 1..Len(pairs) :
                    new_footnotes[KeyOf(r)][k].note_text
                        = clean_note_text(Payload(r.Scripture, pairs[k]))

\* three pairs of markers in two verses gave two keys and three footnotes,
\* and the two footnotes of one verse differ
ThreeMarkersInTwoVerses ==
    /\ Extracted
    /\ Cardinality(RowsWithNotes) = 2
    /\ Cardinality(DOMAIN new_footnotes) = 2
    /\ \E r, q \in RowsWithNotes :
        /\ Len(MarkerPairs(r.Scripture, 1)) = 2
        /\ Len(MarkerPairs(q.Scripture, 1)) = 1
        /\ Len(new_footnotes[KeyOf(r)]) = 2
        /\ Len(new_footnotes[KeyOf(q)]) = 1
        /\ new_footnotes[KeyOf(r)][1].note_text
            # new_footnotes[KeyOf(r)][2].note_text

(* C12.  A row whose book number has no name in BOOK_NAMES adds no key    *)
(* and no footnote, and the other rows are extracted as from the table    *)
(* without it.                                                            *)
UnknownBookSkipped ==
    Extracted =>
        /\ \A key \in DOMAIN new_footnotes :
            \E r \in bible : Known(r) /\ key = KeyOf(r)
        /\ new_footnotes
            = extract_footnotes_from_mysword({r \in bible : Known(r)},
                                             ~args_all)

\* a row of an unknown book with a footnote was read, and a row of a known
\* book gave a footnote
UnknownRowAmongOthers ==
    /\ Extracted
    /\ \E r \in bible : ~Known(r) /\ Selected(r) /\ Contains(r.Scripture, RF)
    /\ DOMAIN new_footnotes # {}

(* C15.  The catch word of a footnote is resolved from the text between   *)
(* the pair of markers before it, or the start of the verse, and its own  *)
(* pair: no payload and no later text is part of it, and a pair that      *)
(* follows another one directly has an empty catch word.                  *)
CatchWordFromTextBefore ==
    Extracted =>
        \A r \in RowsWithNotes :
            \A pairs \in {MarkerPairs(r.Scripture, 1)} :
                \A k \in 1..Len(new_footnotes[KeyOf(r)]) :
                    /\ new_footnotes[KeyOf(r)][k].catch_word
                        = extract_catch_word(Context(r.Scripture, pairs, k))
                    /\ Context(r.Scripture, pairs, k) = <<>>
                        => new_footnotes[KeyOf(r)][k].catch_word = <<>>

\* the second of two adjacent pairs, after a first one with a catch word
AdjacentMarkers ==
    /\ Extracted
    /\ \E r \in RowsWithNotes :
        \E pairs \in {MarkerPairs(r.Scripture, 1)} :
            /\ Len(new_footnotes[KeyOf(r)]) >= 2
            /\ Context(r.Scripture, pairs, 1) # <<>>
            /\ Context(r.Scripture, pairs, 2) = <<>>
            /\ new_footnotes[KeyOf(r)][1].catch_word = <<"h", "e">>
            /\ new_footnotes[KeyOf(r)][2].catch_word = <<>>


----------------------------------------------------------------------------
(* C16.  In one run the document is written once at most, and by no step  *)
(* but the dump that follows the mutation of the verses and the rebuild   *)
(* of the flat array: what is written is the whole merge of the stored    *)
(* document with the extracted mapping.  A run that does not find the     *)
(* database or the document ends with nothing extracted, mutated or       *)
(* written.                                                               *)
WrittenOnceAfterMerge ==
    [][/\ json_file' # json_file => writes' # writes
       /\ writes' # writes =>
            /\ writes = 0
            /\ writes' = 1
            /\ main_pc = "dump"
            /\ json_file' = merge_footnotes_into_json(json_file, new_footnotes,
                                                      ~args_all)
       /\ main_pc' = "exit" =>
            /\ ~(db_exists /\ json_exists)
            /\ new_footnotes' = EmptyMapping
            /\ merge_data' = NoData
            /\ json_file' = json_file
            /\ writes' = 0
       /\ (main_pc = "check_json" /\ main_pc' # "exit") =>
            db_exists /\ json_exists]_vars

\* a run that wrote a document with footnotes over one without
RunWroteFootnotes ==
    /\ main_pc = "done"
    /\ writes = 1
    /\ json_file # loaded
    /\ json_file.footnotes # <<>>
    /\ verses_updated > 0

====
